---- MODULE Spec2Model ----
(***************************************************************************)
(* Model of ray.data._internal.planner.random_shuffle:                     *)
(* generate_random_shuffle_fn and the transform fn it returns.             *)
(*                                                                         *)
(* Python values are modelled as follows.  An Optional[X] is the empty     *)
(* tuple (None) or the one-element tuple <<x>>.  Remote-argument dicts,    *)
(* MapTransformer objects and block sizes are opaque and modelled as       *)
(* strings.  A RefBundle is a record whose field blocks is the list of its *)
(* blocks.  The schedulers are external: the model records which ones a    *)
(* call constructs and the arguments of every execute it makes.            *)
(***************************************************************************)
EXTENDS Integers, Sequences, FiniteSets, TLC

\* ray.util.common.INT32_MAX
INT32_MAX == 2147483647

\* Bounds of the model.
MaxCalls == 2
MaxBundles == 1
MaxBlocks == 1

None == <<>>
Some(v) == <<v>>
Get(o) == o[1]

\* Python truthiness of an Optional[int]: None and 0 are falsy.
TruthyInt(o) == o # None /\ Get(o) # 0

\* Python truthiness of an Optional[MapTransformer]: an object is truthy.
TruthyObj(o) == o # None

\* float("inf")
Inf == "inf"

\* Values of ShuffleStrategy; the code only tests for the push-based one.
SORT_SHUFFLE_PUSH_BASED == "SORT_SHUFFLE_PUSH_BASED"
ShuffleStrategy == {"SORT_SHUFFLE_PULL_BASED", SORT_SHUFFLE_PUSH_BASED}

\* Input domains.
SeedArgs == {None, Some(0)}
NumOutputsArgs == {None, Some(0), Some(5)}
RemoteArgs == {None, Some("caller_args")}
DebugLimitArgs == {None, Some(1)}
UpstreamRemoteArgs == {None, Some("upstream_args")}
MapTransformers == {"mt"}
TargetMaxBlockSizes == {"128MiB"}

\* Readings of time.time_ns().  Integers here stop at 2^31 - 1, so the
\* readings are a small one and the two around the wrap of the modulus: the
\* largest residue and the first multiple of INT32_MAX.
ClockValues == {1, INT32_MAX - 1, INT32_MAX}

RefBundles == {[blocks |-> [i \in 1..n |-> "block"]] : n \in 0..MaxBlocks}
RefLists == UNION {[1..k -> RefBundles] : k \in 0..MaxBundles}
\* fn reads upstream_map_ray_remote_args only when a transformer is attached
\* (line 64), so a context without one carries None there.
TaskContexts ==
    [target_max_block_size : TargetMaxBlockSizes,
     upstream_map_transformer : {None},
     upstream_map_ray_remote_args : {None}]
    \cup
    [target_max_block_size : TargetMaxBlockSizes,
     upstream_map_transformer : {Some(m) : m \in MapTransformers},
     upstream_map_ray_remote_args : UpstreamRemoteArgs]

VARIABLES
    now,                 \* the wall clock, time.time_ns()
    shuffle_strategy,    \* data_context.shuffle_strategy
    constructed,         \* generate_random_shuffle_fn has returned fn
    params,              \* the arguments given to generate_random_shuffle_fn
    seed,                \* closure cell seed
    ray_remote_args,     \* closure cell ray_remote_args (nonlocal in fn)
    target_max_block_size, \* per MapTransformer: its target block size
    set_calls,           \* per MapTransformer: calls of set_target_max_block_size
    ncalls,              \* number of calls of fn so far
    last                 \* what the latest call of fn did (None before any)

vars == <<now, shuffle_strategy, constructed, params, seed, ray_remote_args,
          target_max_block_size, set_calls, ncalls, last>>

\* line 35: seed = seed if seed is not None else (time.time_ns() % INT32_MAX)
resolveSeed_nomod(seedArg, time_ns) ==
    IF seedArg # None THEN Get(seedArg) ELSE time_ns

resolveSeed(seedArg, time_ns) ==
    IF seedArg # None THEN Get(seedArg) ELSE time_ns % INT32_MAX

\* line 41: num_input_blocks = sum(len(r.blocks) for r in refs)
RECURSIVE SumLens(_, _)
SumLens(refs, i) ==
    IF i > Len(refs) THEN 0 ELSE Len(refs[i].blocks) + SumLens(refs, i + 1)

NumInputBlocks_bundles(refs) == Len(refs)

NumInputBlocks(refs) == SumLens(refs, 1)

\* lines 47, 59-60: upstream_map_fn is None, or a closure over the
\* transformer and ctx.
UpstreamMapFn(ctx) ==
    IF TruthyObj(ctx.upstream_map_transformer)
    THEN Some([map_transformer |-> Get(ctx.upstream_map_transformer), ctx |-> ctx])
    ELSE None

\* lines 49, 57: map_transformer.set_target_max_block_size(float("inf"))
OverrideTargetMaxBlockSize_skip(sizes, ctx) == sizes

OverrideTargetMaxBlockSize(sizes, ctx) ==
    IF TruthyObj(ctx.upstream_map_transformer)
    THEN [sizes EXCEPT ![Get(ctx.upstream_map_transformer)] = Inf]
    ELSE sizes

CountSetCalls(counts, ctx) ==
    IF TruthyObj(ctx.upstream_map_transformer)
    THEN [counts EXCEPT ![Get(ctx.upstream_map_transformer)] = @ + 1]
    ELSE counts

\* lines 48-49, 64: ray_remote_args = ctx.upstream_map_ray_remote_args
EffectiveRemoteArgs_keep(args, ctx) == args

EffectiveRemoteArgs(args, ctx) ==
    IF TruthyObj(ctx.upstream_map_transformer)
    THEN ctx.upstream_map_ray_remote_args
    ELSE args

\* lines 66-71; id is the identity of the object (the call that built it).
ShuffleTaskSpec_reseed(target, random_seed, upstream_map_fn, id) ==
    [target_max_block_size |-> target, random_shuffle |-> TRUE,
     random_seed |-> now % INT32_MAX, upstream_map_fn |-> upstream_map_fn,
     id |-> id]

ShuffleTaskSpec(target, random_seed, upstream_map_fn, id) ==
    [target_max_block_size |-> target, random_shuffle |-> TRUE,
     random_seed |-> random_seed, upstream_map_fn |-> upstream_map_fn,
     id |-> id]

\* lines 73-77: the NotImplementedError of the push-based strategy
RaisesNotImplemented_truthy(strategy, num_outputs) ==
    strategy = SORT_SHUFFLE_PUSH_BASED /\ TruthyInt(num_outputs)

RaisesNotImplemented(strategy, num_outputs) ==
    strategy = SORT_SHUFFLE_PUSH_BASED /\ num_outputs # None

\* lines 73, 78-80: the scheduler class constructed
SchedulerClass_swapped(strategy) ==
    IF strategy = SORT_SHUFFLE_PUSH_BASED
    THEN "PullBasedShuffleTaskScheduler"
    ELSE "PushBasedShuffleTaskScheduler"

SchedulerClass(strategy) ==
    IF strategy = SORT_SHUFFLE_PUSH_BASED
    THEN "PushBasedShuffleTaskScheduler"
    ELSE "PullBasedShuffleTaskScheduler"

\* line 84: num_outputs or num_input_blocks
EffectiveNumOutputs(num_outputs, num_input_blocks) ==
    IF TruthyInt(num_outputs) THEN Get(num_outputs) ELSE num_input_blocks

\* lines 37-91: one call of fn, given the closure cells and the heap it reads.
\* The result holds the new value of everything the call can change and the
\* record of what the call did.
fn(refs, ctx, c_seed, c_args, c_params, strategy, sizes, counts, id) ==
    LET num_input_blocks == NumInputBlocks(refs)
        upstream_map_fn == UpstreamMapFn(ctx)
        new_sizes == OverrideTargetMaxBlockSize(sizes, ctx)
        new_counts == CountSetCalls(counts, ctx)
        new_args == EffectiveRemoteArgs(c_args, ctx)
        shuffle_spec == ShuffleTaskSpec(ctx.target_max_block_size, c_seed,
                                        upstream_map_fn, id)
        raises == RaisesNotImplemented(strategy, c_params.num_outputs)
        scheduler == [class |-> SchedulerClass(strategy), spec |-> shuffle_spec]
        execute == [scheduler |-> scheduler,
                    refs |-> refs,
                    num_outputs |-> EffectiveNumOutputs(c_params.num_outputs,
                                                        num_input_blocks),
                    task_ctx |-> ctx,
                    map_ray_remote_args |-> new_args,
                    reduce_ray_remote_args |-> new_args,
                    _debug_limit_execution_to_num_blocks |->
                        c_params._debug_limit_shuffle_execution_to_num_blocks]
    IN  [ray_remote_args |-> new_args,
         target_max_block_size |-> new_sizes,
         set_calls |-> new_counts,
         did |-> [outcome |-> IF raises THEN "NotImplementedError" ELSE "returned",
                  shuffle_spec |-> shuffle_spec,
                  schedulers |-> IF raises THEN <<>> ELSE <<scheduler>>,
                  executes |-> IF raises THEN <<>> ELSE <<execute>>]]

Init ==
    /\ now \in ClockValues
    /\ shuffle_strategy = "SORT_SHUFFLE_PULL_BASED"
    /\ constructed = FALSE
    /\ params = None
    /\ seed = None
    /\ ray_remote_args = None
    /\ target_max_block_size = [m \in MapTransformers |-> "128MiB"]
    /\ set_calls = [m \in MapTransformers |-> 0]
    /\ ncalls = 0
    /\ last = None

\* lines 24-35, 93: generate_random_shuffle_fn(data_context, seed, ...)
generate_random_shuffle_fn(seedArg, num_outputs, args, debug_limit) ==
    /\ ~constructed
    /\ constructed' = TRUE
    /\ params' = [seed |-> seedArg, num_outputs |-> num_outputs,
                  ray_remote_args |-> args,
                  _debug_limit_shuffle_execution_to_num_blocks |-> debug_limit]
    /\ seed' = Some(resolveSeed(seedArg, now))
    /\ ray_remote_args' = args
    /\ UNCHANGED <<now, shuffle_strategy, target_max_block_size, set_calls,
                   ncalls, last>>

\* lines 37-91: fn(refs, ctx)
Call(refs, ctx) ==
    /\ constructed
    /\ ncalls < MaxCalls
    /\ LET r == fn(refs, ctx, Get(seed), ray_remote_args, params,
                   shuffle_strategy, target_max_block_size, set_calls,
                   ncalls + 1)
       IN  /\ ray_remote_args' = r.ray_remote_args
           /\ target_max_block_size' = r.target_max_block_size
           /\ set_calls' = r.set_calls
           /\ last' = Some([call |-> ncalls + 1, refs |-> refs, ctx |-> ctx,
                            strategy |-> shuffle_strategy, did |-> r.did])
    /\ ncalls' = ncalls + 1
    /\ UNCHANGED <<now, shuffle_strategy, constructed, params, seed>>

\* The process-wide configuration is changed between calls.
SetShuffleStrategy(s) ==
    /\ s # shuffle_strategy
    /\ shuffle_strategy' = s
    /\ UNCHANGED <<now, constructed, params, seed, ray_remote_args,
                   target_max_block_size, set_calls, ncalls, last>>

\* The wall clock advances.
Tick ==
    /\ \E t \in ClockValues : t > now /\ now' = t
    /\ UNCHANGED <<shuffle_strategy, constructed, params, seed, ray_remote_args,
                   target_max_block_size, set_calls, ncalls, last>>

Next ==
    \/ \E s \in SeedArgs, n \in NumOutputsArgs, a \in RemoteArgs, d \in DebugLimitArgs :
          generate_random_shuffle_fn(s, n, a, d)
    \/ \E refs \in RefLists, ctx \in TaskContexts : Call(refs, ctx)
    \/ \E s \in ShuffleStrategy : SetShuffleStrategy(s)
    \/ Tick

Spec == Init /\ [][Next]_vars

\* The record of the latest call of fn, and the step that is a call of fn.
L == Get(last)
Fused(ctx) == ctx.upstream_map_transformer # None
CallStep == ncalls' = ncalls + 1

\* C1: every call of one transform builds its ShuffleTaskSpec with the same
\* seed: the explicit seed when one was given, otherwise the value pinned at
\* construction; no call changes the pinned seed.
C1_SeedSameEveryCall ==
    [][CallStep =>
        /\ seed' = seed
        /\ Get(last').did.shuffle_spec.random_seed = Get(seed)
        /\ (params.seed # None =>
                Get(last').did.shuffle_spec.random_seed = Get(params.seed))
        /\ (last # None =>
                Get(last').did.shuffle_spec.random_seed =
                    L.did.shuffle_spec.random_seed)]_vars

\* Two calls were made with a derived seed, after the clock moved on.
C1_Witness ==
    /\ ncalls >= 2
    /\ params.seed = None
    /\ now % INT32_MAX # Get(seed)
    /\ L.did.shuffle_spec.random_seed = Get(seed)

\* C2: a call with no upstream transform hands execute the remote arguments
\* the caller gave to generate_random_shuffle_fn, as map and as reduce
\* arguments, whatever calls were made before it.
C2_NoUpstreamPassesCallerArgs ==
    (last # None /\ ~Fused(L.ctx) /\ L.did.outcome = "returned") =>
        /\ L.did.executes[1].map_ray_remote_args = params.ray_remote_args
        /\ L.did.executes[1].reduce_ray_remote_args = params.ray_remote_args

\* C3: under the push-based strategy a call with num_outputs set (to any
\* value that is not None) raises NotImplementedError, and constructs and
\* executes no scheduler.
C3_PushRejectsNumOutputs ==
    (last # None /\ L.strategy = SORT_SHUFFLE_PUSH_BASED
                 /\ params.num_outputs # None) =>
        /\ L.did.outcome = "NotImplementedError"
        /\ L.did.schedulers = <<>>
        /\ L.did.executes = <<>>

\* A push-based call with num_outputs = 0 was rejected.
C3_Witness ==
    /\ last # None
    /\ L.strategy = SORT_SHUFFLE_PUSH_BASED
    /\ params.num_outputs = Some(0)
    /\ L.did.outcome = "NotImplementedError"

\* C4: with num_outputs supplied and a strategy that is not push-based,
\* execute receives exactly the supplied num_outputs, whatever the block
\* counts of the input bundles.
C4_ExplicitNumOutputsHonored ==
    (last # None /\ params.num_outputs # None
                 /\ L.strategy # SORT_SHUFFLE_PUSH_BASED) =>
        /\ Len(L.did.executes) = 1
        /\ L.did.executes[1].num_outputs = Get(params.num_outputs)

\* The blocks of a list of bundles, each named by its position.
BlocksOf(refs) ==
    UNION {{<<i, j>> : j \in DOMAIN refs[i].blocks} : i \in DOMAIN refs}

C6_OverrideOncePerTransform ==
    (last # None /\ Fused(L.ctx)) =>
        /\ target_max_block_size[Get(L.ctx.upstream_map_transformer)] = Inf
        /\ set_calls[Get(L.ctx.upstream_map_transformer)] = 1

\* C6 as amended: a call with an upstream transform sets its target block
\* size to the unbounded value, once in that call; a call without one
\* performs no override.
C6_OverrideOncePerFusedCall ==
    [][CallStep =>
        IF Fused(Get(last').ctx)
        THEN LET m == Get(Get(last').ctx.upstream_map_transformer)
             IN  /\ target_max_block_size'[m] = Inf
                 /\ set_calls'[m] = set_calls[m] + 1
        ELSE /\ target_max_block_size' = target_max_block_size
             /\ set_calls' = set_calls]_vars

\* The second call with the same upstream transform has overridden again.
C6_Witness ==
    /\ last # None
    /\ Fused(L.ctx)
    /\ set_calls[Get(L.ctx.upstream_map_transformer)] >= 2
    /\ target_max_block_size[Get(L.ctx.upstream_map_transformer)] = Inf

\* C7: a call with an upstream transform hands execute the upstream remote
\* arguments of that call's context as map and as reduce arguments, and the
\* ShuffleTaskSpec has an upstream map function exactly when an upstream
\* transform is attached.
C7_UpstreamArgsAndMapFn ==
    last # None =>
        /\ (L.did.shuffle_spec.upstream_map_fn # None) <=> Fused(L.ctx)
        /\ (Fused(L.ctx) /\ L.did.outcome = "returned") =>
              /\ L.did.executes[1].map_ray_remote_args =
                    L.ctx.upstream_map_ray_remote_args
              /\ L.did.executes[1].reduce_ray_remote_args =
                    L.ctx.upstream_map_ray_remote_args

\* A second, fused call ran with upstream arguments that differ from the
\* caller's.
C7_Witness ==
    /\ ncalls >= 2
    /\ Fused(L.ctx)
    /\ L.did.outcome = "returned"
    /\ params.ray_remote_args = Some("caller_args")
    /\ L.ctx.upstream_map_ray_remote_args = Some("upstream_args")
    /\ L.did.executes[1].map_ray_remote_args = Some("upstream_args")
    /\ L.did.shuffle_spec.upstream_map_fn # None

\* C8: what a call does (the error, or the scheduler, seed, output count,
\* remote arguments and debug limit) is what the same call does as the first
\* call of the transform: it depends on the construction parameters, the
\* call's inputs and the strategy at the call, not on earlier calls.
C8_OutcomeIndependentOfEarlierCalls ==
    last # None =>
        L.did = fn(L.refs, L.ctx, Get(seed),
                   params.ray_remote_args, params, L.strategy,
                   target_max_block_size, set_calls, L.call).did

\* C9: a seed derived from the clock lies in [0, INT32_MAX), and so does the
\* seed of every ShuffleTaskSpec built with it.
C9_DerivedSeedInRange ==
    (constructed /\ params.seed = None) =>
        /\ 0 <= Get(seed) /\ Get(seed) < INT32_MAX
        /\ (last # None =>
               /\ 0 <= L.did.shuffle_spec.random_seed
               /\ L.did.shuffle_spec.random_seed < INT32_MAX)

\* A transform constructed when the clock read a multiple of INT32_MAX has
\* been called.
C9_Witness ==
    /\ constructed
    /\ params.seed = None
    /\ Get(seed) = 0
    /\ last # None
    /\ L.did.shuffle_spec.random_seed = 0

\* C10: a call that is not rejected constructs one scheduler, push-based
\* exactly when the configuration read at that call is push-based and
\* pull-based otherwise, and invokes its execute once, with the
\* ShuffleTaskSpec built in that call; a rejected call constructs none.
C10_OneSchedulerPerCall ==
    [][CallStep =>
        LET d == Get(last').did
        IN  IF d.outcome = "returned"
            THEN /\ Len(d.schedulers) = 1
                 /\ d.schedulers[1].class =
                       (IF shuffle_strategy = SORT_SHUFFLE_PUSH_BASED
                        THEN "PushBasedShuffleTaskScheduler"
                        ELSE "PullBasedShuffleTaskScheduler")
                 /\ d.schedulers[1].spec = d.shuffle_spec
                 /\ d.shuffle_spec.id = ncalls'
                 /\ Len(d.executes) = 1
                 /\ d.executes[1].scheduler = d.schedulers[1]
            ELSE d.schedulers = <<>> /\ d.executes = <<>>]_vars

\* A second call ran push-based, after the configuration was changed from
\* the pull-based default.
C10_Witness ==
    /\ ncalls >= 2
    /\ L.did.outcome = "returned"
    /\ L.did.schedulers[1].class = "PushBasedShuffleTaskScheduler"
    /\ shuffle_strategy = SORT_SHUFFLE_PUSH_BASED

====
